---- MODULE Spec2Model ----
(***************************************************************************)
(* A model of the astrbot_plugin_cook recipe service:                      *)
(*   - LRUCache            (src/services/cache_service.py)                 *)
(*   - CacheService        (src/services/cache_service.py)                 *)
(*   - RecipeSearchService (src/services/search_service.py)                *)
(*   - RecipeService       (src/services/recipe_service.py)                *)
(*                                                                         *)
(* Three specifications share the variables:                               *)
(*   SpecCache   one LRUCache driven by arbitrary get/set/delete/clear/    *)
(*               clear_expired calls and a clock;                          *)
(*   SpecSearch  one RecipeSearchService driven by update_recipes and      *)
(*               queries;                                                  *)
(*   Spec        the RecipeService with its asyncio tasks (initialize,     *)
(*               reload_data, cleanup, queries, background sweep), one     *)
(*               initialize/reload_data call in flight at a time.          *)
(* A specification leaves the variables of the other parts at their        *)
(* initial values.                                                         *)
(***************************************************************************)
EXTENDS Integers, Sequences, FiniteSets, TLC

VARIABLES
    now,          \* time.time(), in seconds
    lru,          \* SpecCache: LRUCache._cache, oldest entry first
    recency,      \* SpecCache: history variable, the keys of lru by last use
    last_op,      \* SpecCache: the last LRUCache call of the caller;
                  \* SpecSweep: the last error the background task logged
    before_reload,  \* history variable: per reload_data() call in flight,
                    \* the caches and counters as the call found them
    result,       \* what the step returned or raised; None if nothing
    ss_recipes,           \* RecipeSearchService._recipes, in dict order
    ss_name_index,        \* RecipeSearchService._name_index
    ss_category_index,    \* RecipeSearchService._category_index, in dict order
    ss_keyword_index,     \* RecipeSearchService._keyword_index
    ss_random_pool,       \* RecipeSearchService._random_pool
    ss_all_recipes_list,  \* RecipeSearchService._all_recipes_list
    is_initialized,   \* RecipeService._is_initialized
    svc_recipes,      \* RecipeService._recipes, in dict order
    aliased,          \* RecipeService._recipes and the search service's
                      \* _recipes are one and the same dict object
    has_search,       \* RecipeService._search_service is not None
    has_cache,        \* RecipeService._cache_service is not None
    search_cache,     \* CacheService.search_cache._cache
    random_cache,     \* CacheService.random_cache._cache
    category_cache,   \* CacheService.category_cache._cache
    cache_stats,      \* CacheService.stats
    stats,            \* RecipeService._stats
    pc,               \* where each initialize()/reload_data() call stands
    bg_tasks,         \* the number of running _background_cleanup tasks
    fetch             \* SpecFetch: the fetch_recipes() call of the
                      \* RemoteRecipeSource: its config, its locals, where it
                      \* stands and what it has done so far

cacheVars == <<lru, recency, last_op, before_reload>>

searchVars == <<ss_recipes, ss_name_index, ss_category_index, ss_keyword_index,
                ss_random_pool, ss_all_recipes_list>>

cachesVars == <<search_cache, random_cache, category_cache, cache_stats>>

svcVars == <<is_initialized, svc_recipes, aliased, has_search, has_cache,
             search_cache, random_cache, category_cache, cache_stats, stats,
             pc, bg_tasks>>

vars == <<fetch, now, lru, recency, last_op, before_reload, result, ss_recipes, ss_name_index,
          ss_category_index, ss_keyword_index, ss_random_pool,
          ss_all_recipes_list, is_initialized, svc_recipes, aliased,
          has_search, has_cache, search_cache, random_cache, category_cache,
          cache_stats, stats, pc, bg_tasks>>

(***************************************************************************)
(* Bounds of the model.                                                    *)
(***************************************************************************)
MaxTime == 3          \* the clock of SpecCache stops here
lru_max_size == 2     \* LRUCache(max_size=...) of SpecCache
lru_default_ttl == 2  \* LRUCache(default_ttl=...) of SpecCache

\* Python's None, as a cached value and as a return value.
None == [kind |-> "None"]

(***************************************************************************)
(* LRUCache: the OrderedDict key -> (value, expire_time) is a sequence of  *)
(* entries in iteration order, so entry 1 is next(iter(self._cache)) and   *)
(* the last entry is the one move_to_end / a fresh insert put there.       *)
(* Every method body runs under self._lock, so each is one atomic step.    *)
(***************************************************************************)
CacheKeys(c) == {c[i].key : i \in DOMAIN c}

CacheHas(c, k) == k \in CacheKeys(c)

CacheEntry(c, k) == c[CHOOSE i \in DOMAIN c : c[i].key = k]

CacheDel(c, k) == SelectSeq(c, LAMBDA e : e.key # k)

\* get without the expiry test (mutant).
LRUCache_get_no_expiry(c, k, t) ==
    IF ~CacheHas(c, k)
    THEN [cache |-> c, value |-> None]
    ELSE [cache |-> Append(CacheDel(c, k), CacheEntry(c, k)),
          value |-> CacheEntry(c, k).value]

\* get without move_to_end (mutant).
LRUCache_get_no_move(c, k, t) ==
    IF ~CacheHas(c, k)
    THEN [cache |-> c, value |-> None]
    ELSE IF t > CacheEntry(c, k).expire_time
         THEN [cache |-> CacheDel(c, k), value |-> None]
         ELSE [cache |-> c, value |-> CacheEntry(c, k).value]

\* get that treats an entry as expired at its expiry time (mutant: >= for >).
LRUCache_get_ge(c, k, t) ==
    IF ~CacheHas(c, k)
    THEN [cache |-> c, value |-> None]
    ELSE IF t >= CacheEntry(c, k).expire_time
         THEN [cache |-> CacheDel(c, k), value |-> None]
         ELSE [cache |-> Append(CacheDel(c, k), CacheEntry(c, k)),
               value |-> CacheEntry(c, k).value]

\* LRUCache.get(key) at time t: the cache afterwards and the value returned.
LRUCache_get(c, k, t) ==
    IF ~CacheHas(c, k)
    THEN [cache |-> c, value |-> None]
    ELSE IF t > CacheEntry(c, k).expire_time
         THEN [cache |-> CacheDel(c, k), value |-> None]
         ELSE [cache |-> Append(CacheDel(c, k), CacheEntry(c, k)),
               value |-> CacheEntry(c, k).value]

\* ttl or self.default_ttl: None and 0 are both falsy; 0 stands for both.
EffectiveTTL(ttl, default_ttl) == IF ttl = 0 THEN default_ttl ELSE ttl

\* while len(self._cache) >= self.max_size: del next(iter(self._cache))
RECURSIVE EvictOldest(_, _)
EvictOldest(c, max_size) ==
    IF Len(c) >= max_size THEN EvictOldest(Tail(c), max_size) ELSE c

\* set that evicts the most recently used entry (popitem(last=True))
LRUCache_set_evicts_newest(c, k, v, ttl, t, max_size, default_ttl) ==
    LET d == CacheDel(c, k) IN
    Append(IF Len(d) >= max_size THEN SubSeq(d, 1, max_size - 1) ELSE d,
           [key |-> k, value |-> v,
            expire_time |-> t + EffectiveTTL(ttl, default_ttl)])

\* set that evicts only above max_size (mutant: > for >=).
LRUCache_set_off_by_one(c, k, v, ttl, t, max_size, default_ttl) ==
    Append(EvictOldest(CacheDel(c, k), max_size + 1),
           [key |-> k, value |-> v,
            expire_time |-> t + EffectiveTTL(ttl, default_ttl)])

\* LRUCache.set(key, value, ttl) at time t: the cache afterwards.
LRUCache_set(c, k, v, ttl, t, max_size, default_ttl) ==
    Append(EvictOldest(CacheDel(c, k), max_size),
           [key |-> k, value |-> v,
            expire_time |-> t + EffectiveTTL(ttl, default_ttl)])

\* LRUCache.delete(key): the cache afterwards and the bool returned.
LRUCache_delete(c, k) ==
    [cache |-> CacheDel(c, k), value |-> CacheHas(c, k)]

\* LRUCache.clear()
LRUCache_clear(c) == <<>>

\* clear_expired that removes an entry at its expiry time already (>= for >)
LRUCache_clear_expired_ge(c, t) ==
    [cache |-> SelectSeq(c, LAMBDA e : ~(t >= e.expire_time)),
     value |-> Cardinality({i \in DOMAIN c : t >= c[i].expire_time})]

\* LRUCache.clear_expired() at time t: the cache afterwards and the count.
LRUCache_clear_expired(c, t) ==
    [cache |-> SelectSeq(c, LAMBDA e : ~(t > e.expire_time)),
     value |-> Cardinality({i \in DOMAIN c : t > c[i].expire_time})]

\* LRUCache.size()
LRUCache_size(c) == Len(c)

(***************************************************************************)
(* Strings are sequences of one-character strings.                         *)
(***************************************************************************)
\* The characters are ASCII: the letters below are the cased ones.
UpperLetters == <<"A", "B", "C", "D", "E", "F", "G", "H", "I", "J", "K", "L", "M",
                  "N", "O", "P", "Q", "R", "S", "T", "U", "V", "W", "X", "Y", "Z">>
LowerLetters == <<"a", "b", "c", "d", "e", "f", "g", "h", "i", "j", "k", "l", "m",
                  "n", "o", "p", "q", "r", "s", "t", "u", "v", "w", "x", "y", "z">>

\* The ASCII characters str.strip() strips and str.isspace() accepts:
\* space, tab, newline, carriage return, form feed, the vertical tab
\* chr(11) and the separators chr(28)..chr(31).
Whitespace == {" ", "\t", "\n", "\r", "\f", "", "", "", "", ""}

\* ch.lower() of one character
LowerChar(ch) ==
    IF \E i \in DOMAIN UpperLetters : UpperLetters[i] = ch
    THEN LowerLetters[CHOOSE i \in DOMAIN UpperLetters : UpperLetters[i] = ch]
    ELSE ch

\* str.lower()
Lower(str) == [i \in DOMAIN str |-> LowerChar(str[i])]

\* not str.strip(): the string is empty or all whitespace
IsBlank(str) == \A i \in DOMAIN str : str[i] \in Whitespace

\* Python's `sub in str`
Contains(str, sub) ==
    \E i \in 1..(Len(str) - Len(sub) + 1) : SubSeq(str, i, i + Len(sub) - 1) = sub

\* str.startswith(sub)
StartsWith(str, sub) ==
    Len(sub) <= Len(str) /\ SubSeq(str, 1, Len(sub)) = sub

\* str.index(sub), 0-based, for a sub that str contains
IndexOf(str, sub) ==
    (CHOOSE i \in 1..(Len(str) - Len(sub) + 1) :
        /\ SubSeq(str, i, i + Len(sub) - 1) = sub
        /\ \A j \in 1..(i - 1) : SubSeq(str, j, j + Len(sub) - 1) # sub) - 1

Range(f) == {f[x] : x \in DOMAIN f}

\* The orderings of a finite set: the sequences that hold each element once.
Orderings(S) ==
    {p \in [1..Cardinality(S) -> S] : \A i, j \in 1..Cardinality(S) : i # j => p[i] # p[j]}

\* d[k] = v on a dict d modelled as a function
DictPut(d, k, v) == [x \in DOMAIN d \cup {k} |-> IF x = k THEN v ELSE d[x]]

EmptyDict == [x \in {} |-> None]

(***************************************************************************)
(* RecipeSearchService: the index and its queries.                         *)
(* A Recipe is [name, category_zh]; category and url play no part in the   *)
(* index.  self._recipes (a dict name -> Recipe) is the sequence of its    *)
(* values in insertion order; the names in it are distinct.                *)
(***************************************************************************)
RecipesHas(recipes, name) == \E i \in DOMAIN recipes : recipes[i].name = name

RecipesGet(recipes, name) ==
    recipes[CHOOSE i \in DOMAIN recipes : recipes[i].name = name]

\* self._name_index[recipe.name] = recipe
\* self._name_index[recipe.name.lower()] = recipe
NameIndexAdd(idx, recipe) ==
    DictPut(DictPut(idx, recipe.name, recipe), Lower(recipe.name), recipe)

\* self._category_index[recipe.category_zh].append(recipe)
CategoryIndexAdd(idx, recipe) ==
    IF \E i \in DOMAIN idx : idx[i].category_zh = recipe.category_zh
    THEN [i \in DOMAIN idx |->
            IF idx[i].category_zh = recipe.category_zh
            THEN [idx[i] EXCEPT !.recipes = Append(@, recipe)]
            ELSE idx[i]]
    ELSE Append(idx, [category_zh |-> recipe.category_zh, recipes |-> <<recipe>>])

\* The tokens _build_keyword_index registers a name under: every
\* non-whitespace character and every non-blank 2- and 3-character
\* substring of the lowercased name.
KeywordTokens(name) ==
    LET n == Lower(name) IN
    {<<n[i]>> : i \in {j \in DOMAIN n : ~IsBlank(<<n[j]>>)}}
    \cup {SubSeq(n, w[1], w[1] + w[2] - 1) :
            w \in {x \in (DOMAIN n) \X {2, 3} :
                     /\ x[1] - 1 + x[2] <= Len(n)
                     /\ ~IsBlank(SubSeq(n, x[1], x[1] + x[2] - 1))}}

\* _build_keyword_index(recipe)
KeywordIndexAdd(idx, recipe) ==
    [t \in DOMAIN idx \cup KeywordTokens(recipe.name) |->
        (IF t \in DOMAIN idx THEN idx[t] ELSE {})
        \cup (IF t \in KeywordTokens(recipe.name) THEN {recipe.name} ELSE {})]

\* The loop of _build_indexes over self._recipes.values(), from empty
\* indexes: the indexes after the first n recipes.
RECURSIVE BuildBase(_, _)
BuildBase(recipes, n) ==
    IF n = 0
    THEN [name_index |-> EmptyDict, category_index |-> <<>>,
          keyword_index |-> EmptyDict, all_recipes_list |-> <<>>]
    ELSE LET b == BuildBase(recipes, n - 1) IN
         [name_index |-> NameIndexAdd(b.name_index, recipes[n]),
          category_index |-> CategoryIndexAdd(b.category_index, recipes[n]),
          keyword_index |-> KeywordIndexAdd(b.keyword_index, recipes[n]),
          all_recipes_list |-> Append(b.all_recipes_list, recipes[n])]

\* _build_random_pools: one pool per category of the category index and the
\* pool "" of all recipes (a category label is never "": Recipe rejects a
\* blank category_zh).  random.shuffle leaves any order of each list, so
\* the outcome is any of these pool maps.
RandomPools(category_index, all_recipes_list) ==
    LET cats == {category_index[i].category_zh : i \in DOMAIN category_index}
        listOf(c) == (CHOOSE e \in Range(category_index) : e.category_zh = c).recipes
        keys == cats \cup (IF all_recipes_list # <<>> THEN {""} ELSE {})
        src(k) == IF k = "" THEN all_recipes_list ELSE listOf(k)
    IN {p \in [keys -> UNION {Orderings(Range(src(k))) : k \in keys}] :
          \A k \in keys : Range(p[k]) = Range(src(k))}

\* find_by_name(name)
find_by_name(name_index, name) ==
    IF IsBlank(name) THEN None
    ELSE IF name \in DOMAIN name_index THEN name_index[name]
    ELSE IF Lower(name) \in DOMAIN name_index THEN name_index[Lower(name)]
    ELSE None

\* _calculate_relevance scoring a name by the position of the keyword only
calculate_relevance_by_position(recipe_name, keyword) ==
    LET name_lower == Lower(recipe_name) IN
    IF Contains(name_lower, keyword) THEN 2 + IndexOf(name_lower, keyword)
    ELSE 1000

\* _calculate_relevance(recipe_name, keyword)
calculate_relevance(recipe_name, keyword) ==
    LET name_lower == Lower(recipe_name) IN
    IF name_lower = keyword THEN 0
    ELSE IF StartsWith(name_lower, keyword) THEN 1
    ELSE IF Contains(name_lower, keyword) THEN 2 + IndexOf(name_lower, keyword)
    ELSE 1000

\* The names collected from the index tokens that occur in the keyword
\* (the containment test of search_by_keyword the other way round).
matched_names_of_parts(keyword_index, keyword_lower) ==
    UNION {keyword_index[t] : t \in {x \in DOMAIN keyword_index : Contains(keyword_lower, x)}}

\* The names search_by_keyword collects from the keyword index.
matched_names(keyword_index, keyword_lower) ==
    (IF keyword_lower \in DOMAIN keyword_index THEN keyword_index[keyword_lower] ELSE {})
    \cup UNION {keyword_index[t] : t \in {x \in DOMAIN keyword_index : Contains(x, keyword_lower)}}

\* get_total_count()
get_total_count(recipes) == Len(recipes)

\* validate_category(category_zh)
validate_category(category_index, category_zh) ==
    \E i \in DOMAIN category_index :
        category_index[i].category_zh = category_zh /\ Len(category_index[i].recipes) > 0

\* get_categories_info(): the dict label -> count, as pairs in dict order
get_categories_info(category_index) ==
    LET kept == SelectSeq(category_index, LAMBDA e : e.recipes # <<>>) IN
    [i \in DOMAIN kept |-> <<kept[i].category_zh, Len(kept[i].recipes)>>]

\* Configuration (RecipeConfig).  max_search_results is read from the
\* environment (default 10); the model runs with a small value so that
\* truncation happens on small record sets.
max_search_results == 2
min_random_count == 1
max_random_count == 10

Min(a, b) == IF a <= b THEN a ELSE b
Max(a, b) == IF a >= b THEN a ELSE b

\* seq[:n] of Python, n of either sign
SlicePrefix(seq, n) ==
    IF n >= 0 THEN SubSeq(seq, 1, Min(n, Len(seq)))
    ELSE SubSeq(seq, 1, Max(Len(seq) + n, 0))

\* search_by_keyword(keyword, max_results): the SearchResults it can return.
\* max_results = 0 stands for None (max_results or config.max_search_results).
\* matched_names is a Python set, iterated in an arbitrary order, and
\* list.sort is stable: the matches come in any order that is
\* non-decreasing in relevance.
search_by_keyword(recipes, keyword_index, keyword, max_results) ==
    IF IsBlank(keyword)
    THEN {[recipes |-> <<>>, total_count |-> 0, has_more |-> FALSE, query |-> keyword]}
    ELSE LET limit == IF max_results = 0 THEN max_search_results ELSE max_results
             keyword_lower == Lower(keyword)
             names == {n \in matched_names(keyword_index, keyword_lower) :
                         RecipesHas(recipes, n)}
             matched == {RecipesGet(recipes, n) : n \in names}
             sorted == {o \in Orderings(matched) :
                          \A i, j \in DOMAIN o :
                             i < j => calculate_relevance(o[i].name, keyword_lower)
                                      <= calculate_relevance(o[j].name, keyword_lower)}
         IN {[recipes |-> SlicePrefix(o, limit),
              total_count |-> Len(o),
              has_more |-> Len(o) > limit,
              query |-> keyword] : o \in sorted}

\* get_random_recipes sampling with replacement (random.choices)
get_random_recipes_with_replacement(random_pool, count, category_zh) ==
    LET n == Max(min_random_count, Min(count, max_random_count))
        pool_key == IF category_zh # "" /\ category_zh \in DOMAIN random_pool
                    THEN category_zh ELSE ""
    IN IF pool_key \notin DOMAIN random_pool THEN {<<>>}
       ELSE LET pool == random_pool[pool_key] IN
            IF pool = <<>> THEN {<<>>}
            ELSE {[i \in 1..n |-> pool[pos[i]]] : pos \in [1..n -> DOMAIN pool]}

\* get_random_recipes drawing from the pool of all recipes whatever the category
get_random_recipes_from_all(random_pool, count, category_zh) ==
    LET n == Max(min_random_count, Min(count, max_random_count))
    IN IF "" \notin DOMAIN random_pool THEN {<<>>}
       ELSE LET pool == random_pool[""] IN
            IF n >= Len(pool) THEN {pool}
            ELSE {[i \in 1..n |-> pool[pos[i]]] :
                    pos \in {q \in [1..n -> DOMAIN pool] :
                               \A i, j \in 1..n : i # j => q[i] # q[j]}}

\* get_random_recipes(count, category_zh): the lists it can return.
\* category_zh = "" stands for None.  random.sample draws count distinct
\* positions of the pool, in any order.
get_random_recipes(random_pool, count, category_zh) ==
    LET n == Max(min_random_count, Min(count, max_random_count))
        pool_key == IF category_zh # "" /\ category_zh \in DOMAIN random_pool
                    THEN category_zh ELSE ""
    IN IF pool_key \notin DOMAIN random_pool THEN {<<>>}
       ELSE LET pool == random_pool[pool_key] IN
            IF pool = <<>> THEN {<<>>}
            ELSE IF n >= Len(pool) THEN {pool}
            ELSE {[i \in 1..n |-> pool[pos[i]]] :
                    pos \in {q \in [1..n -> DOMAIN pool] :
                               \A i, j \in 1..n : i # j => q[i] # q[j]}}

\* get_random_recipe_by_category(category_zh): the Recipes (or None) it can return
get_random_recipe_by_category(random_pool, category_zh) ==
    {IF r = <<>> THEN None ELSE r[1] : r \in get_random_recipes(random_pool, 1, category_zh)}

\* The index fields of a RecipeSearchService, as one record.
EmptyIndex ==
    [name_index |-> EmptyDict, category_index |-> <<>>, keyword_index |-> EmptyDict,
     random_pool |-> EmptyDict, all_recipes_list |-> <<>>]

\* _build_indexes() on self._recipes = recipes, the index fields being old:
\* the index fields it can leave.  With no recipes it returns before it
\* clears anything.
build_indexes(recipes, old) ==
    IF recipes = <<>> THEN {old}
    ELSE LET b == BuildBase(recipes, Len(recipes)) IN
         {[name_index |-> b.name_index,
           category_index |-> b.category_index,
           keyword_index |-> b.keyword_index,
           random_pool |-> p,
           all_recipes_list |-> b.all_recipes_list] :
             p \in RandomPools(b.category_index, b.all_recipes_list)}

CurrentIndex ==
    [name_index |-> ss_name_index, category_index |-> ss_category_index,
     keyword_index |-> ss_keyword_index, random_pool |-> ss_random_pool,
     all_recipes_list |-> ss_all_recipes_list]

\* RecipeSearchService.__init__(recipes, config), as an initial condition
SearchServiceInit(recipes) ==
    /\ ss_recipes = recipes
    /\ \E ix \in build_indexes(recipes, EmptyIndex) :
        /\ ss_name_index = ix.name_index
        /\ ss_category_index = ix.category_index
        /\ ss_keyword_index = ix.keyword_index
        /\ ss_random_pool = ix.random_pool
        /\ ss_all_recipes_list = ix.all_recipes_list

\* RecipeSearchService.__init__(recipes, config), as a step
SearchServiceNew(recipes) ==
    /\ ss_recipes' = recipes
    /\ \E ix \in build_indexes(recipes, EmptyIndex) :
        /\ ss_name_index' = ix.name_index
        /\ ss_category_index' = ix.category_index
        /\ ss_keyword_index' = ix.keyword_index
        /\ ss_random_pool' = ix.random_pool
        /\ ss_all_recipes_list' = ix.all_recipes_list

\* update_recipes(recipes)
update_recipes(recipes) ==
    /\ ss_recipes' = recipes
    /\ \E ix \in build_indexes(recipes, CurrentIndex) :
        /\ ss_name_index' = ix.name_index
        /\ ss_category_index' = ix.category_index
        /\ ss_keyword_index' = ix.keyword_index
        /\ ss_random_pool' = ix.random_pool
        /\ ss_all_recipes_list' = ix.all_recipes_list

(***************************************************************************)
(* CacheService: three LRUCaches and six hit/miss counters.                *)
(***************************************************************************)
\* Configuration (RecipeConfig), read from the environment; the model runs
\* with small values (defaults 3600, 100, 50); a default TTL below the 60
\* seconds of the random entries keeps the two apart.
cache_ttl == 30
search_cache_size == 2
random_pool_size == 2
\* category_cache = LRUCache(max_size=20, default_ttl=default_ttl * 2)
category_cache_size == 20

ZeroCacheStats ==
    [search_hits |-> 0, search_misses |-> 0, random_hits |-> 0,
     random_misses |-> 0, category_hits |-> 0, category_misses |-> 0]

\* The cache keys f"search:{query.lower()}", f"random:{category}:{count}"
\* and f"category:{category}", as tuples of their parts.
SearchKey(query) == <<"search", Lower(query)>>
RandomKey(category, count) == <<"random", category, count>>
CategoryKey(category) == <<"category", category>>

\* A CacheService get that counts every call as a hit
CacheServiceGetCountsHit(cache, key, t, cstats, hits, misses) ==
    LET r == LRUCache_get(cache, key, t) IN
    [cache |-> r.cache,
     value |-> r.value,
     stats |-> [cstats EXCEPT ![hits] = @ + 1]]

\* get_search_result / get_random_recipes / get_category_info: LRUCache.get
\* and one counter: hits if the result is not None, else misses.
CacheServiceGet(cache, key, t, cstats, hits, misses) ==
    LET r == LRUCache_get(cache, key, t) IN
    [cache |-> r.cache,
     value |-> r.value,
     stats |-> IF r.value # None
               THEN [cstats EXCEPT ![hits] = @ + 1]
               ELSE [cstats EXCEPT ![misses] = @ + 1]]

\* CacheService.__init__ / clear_all(): empty caches, counters at zero
CachesAreNew ==
    /\ search_cache' = <<>>
    /\ random_cache' = <<>>
    /\ category_cache' = <<>>
    /\ cache_stats' = ZeroCacheStats

\* clear_all() that empties the caches and keeps the counters
clear_all_keeps_counters ==
    IF has_cache
    THEN /\ search_cache' = <<>>
         /\ random_cache' = <<>>
         /\ category_cache' = <<>>
         /\ UNCHANGED cache_stats
    ELSE UNCHANGED cachesVars

\* clear_all(), called only if self._cache_service
clear_all ==
    IF has_cache THEN CachesAreNew ELSE UNCHANGED cachesVars

\* cleanup_expired()
cleanup_expired ==
    /\ search_cache' = LRUCache_clear_expired(search_cache, now).cache
    /\ random_cache' = LRUCache_clear_expired(random_cache, now).cache
    /\ category_cache' = LRUCache_clear_expired(category_cache, now).cache
    /\ UNCHANGED cache_stats

(***************************************************************************)
(* RecipeService.                                                          *)
(***************************************************************************)
ZeroStats ==
    [requests_total |-> 0, search_requests |-> 0, random_requests |-> 0,
     category_requests |-> 0, cache_hits |-> 0, cache_misses |-> 0]

\* RecipeService.__init__: nothing loaded, no services, no task
ServiceInit ==
    /\ is_initialized = FALSE
    /\ svc_recipes = <<>>
    /\ aliased = FALSE
    /\ has_search = FALSE
    /\ has_cache = FALSE
    /\ search_cache = <<>>
    /\ random_cache = <<>>
    /\ category_cache = <<>>
    /\ cache_stats = ZeroCacheStats
    /\ stats = ZeroStats
    /\ pc = [t \in {1, 2} |-> "idle"]   \* two coroutines of initialize/reload_data
    /\ bg_tasks = 0

(***************************************************************************)
(* SpecCache: one LRUCache and its callers.                                *)
(***************************************************************************)
Keys == {"k1", "k2", "k3"}
Values == {[kind |-> "v1"], [kind |-> "v2"]}
\* ttl arguments of set: 0 is ttl=None (or 0), the default TTL applies; a
\* negative ttl is accepted and stores an entry that is expired at once
TTLArgs == {0, 1, -1}

\* The history variable of the recency rule: a use of key k (a get that
\* returns it, a set of it) makes k the most recent; keys no longer stored
\* are dropped.
Touch(r, k, c) ==
    SelectSeq(Append(SelectSeq(r, LAMBDA x : x # k), k),
              LAMBDA x : x \in CacheKeys(c))

Forget(r, c) == SelectSeq(r, LAMBDA x : x \in CacheKeys(c))

NoOp == [op |-> "none"]

\* No fetch_recipes() call is modelled.
NoFetch == [status |-> "none"]

CacheInit ==
    /\ lru = <<>>
    /\ recency = <<>>
    /\ last_op = NoOp
    /\ before_reload = [t \in {1, 2} |-> None]

Get(k) ==
    LET r == LRUCache_get(lru, k, now) IN
    /\ lru' = r.cache
    /\ result' = r.value
    /\ recency' = IF CacheHas(r.cache, k)      \* the get returned the entry
                  THEN Touch(recency, k, r.cache)
                  ELSE Forget(recency, r.cache)
    /\ last_op' = [op |-> "get", key |-> k,
                    expired |-> CacheHas(lru, k) /\ now > CacheEntry(lru, k).expire_time,
                    follows_set |-> last_op.op = "set" /\ last_op.key = k]
    /\ UNCHANGED <<fetch, now, before_reload, searchVars, svcVars>>

\* set(k, v, ttl) on an LRUCache constructed with max_size
SetOfSize(k, v, ttl, max_size) ==
    LET c == LRUCache_set(lru, k, v, ttl, now, max_size, lru_default_ttl) IN
    /\ lru' = c
    /\ result' = None
    /\ recency' = Touch(recency, k, c)
    /\ last_op' = [op |-> "set", key |-> k, value |-> v, ttl |-> ttl, at |-> now,
                    evicted |-> CacheKeys(lru) \ CacheKeys(c)]
    /\ UNCHANGED <<fetch, now, before_reload, searchVars, svcVars>>

Set(k, v, ttl) == SetOfSize(k, v, ttl, lru_max_size)

Delete(k) ==
    LET r == LRUCache_delete(lru, k) IN
    /\ lru' = r.cache
    /\ result' = [kind |-> "bool", value |-> r.value]
    /\ recency' = Forget(recency, r.cache)
    /\ last_op' = [op |-> "delete", key |-> k]
    /\ UNCHANGED <<fetch, now, before_reload, searchVars, svcVars>>

Clear ==
    /\ lru' = LRUCache_clear(lru)
    /\ result' = None
    /\ recency' = <<>>
    /\ last_op' = [op |-> "clear"]
    /\ UNCHANGED <<fetch, now, before_reload, searchVars, svcVars>>

ClearExpired ==
    LET r == LRUCache_clear_expired(lru, now) IN
    /\ lru' = r.cache
    /\ result' = [kind |-> "int", value |-> r.value]
    /\ recency' = Forget(recency, r.cache)
    /\ last_op' = [op |-> "clear_expired"]
    /\ UNCHANGED <<fetch, now, before_reload, searchVars, svcVars>>

\* The clock advances between calls.
Tick ==
    /\ now < MaxTime
    /\ now' = now + 1
    /\ UNCHANGED <<fetch, lru, recency, last_op, before_reload, result, searchVars, svcVars>>

InitCache ==
    /\ now = 0
    /\ result = None
    /\ CacheInit
    /\ fetch = NoFetch
    /\ SearchServiceInit(<<>>)
    /\ ServiceInit

NextCache ==
    \/ \E k \in Keys : Get(k)
    \/ \E k \in Keys, v \in Values, ttl \in TTLArgs : Set(k, v, ttl)
    \/ \E k \in Keys : Delete(k)
    \/ Clear
    \/ ClearExpired
    \/ Tick

SpecCache == InitCache /\ [][NextCache]_vars

\* SpecCacheWide: an LRUCache that holds all the keys, so that a sweep can
\* remove an entry and leave several.
wide_max_size == 3

NextCacheWide ==
    \/ \E k \in Keys : Get(k)
    \/ \E k \in Keys, v \in Values, ttl \in TTLArgs : SetOfSize(k, v, ttl, wide_max_size)
    \/ \E k \in Keys : Delete(k)
    \/ Clear
    \/ ClearExpired
    \/ Tick

SpecCacheWide == InitCache /\ [][NextCacheWide]_vars

\* The step is a call of set, with the arguments its record holds.
SetCall ==
    /\ last_op'.op = "set"
    /\ Set(last_op'.key, last_op'.value, last_op'.ttl)

\* The step is a call of get, with the key its record holds.
GetCall ==
    /\ last_op'.op = "get"
    /\ Get(last_op'.key)

(***************************************************************************)
(* Claims about the LRUCache, checked under SpecCache.                     *)
(***************************************************************************)

\* C1: after any sequence of get, set, delete, clear and clear_expired calls
\* the number of stored entries never exceeds max_size.
C1_SizeNeverExceedsMaxSize == LRUCache_size(lru) <= lru_max_size

\* C1 witness: a set has just stored into a cache that is full and that
\* still holds an entry whose expiry time has passed.
C1_Witness ==
    /\ last_op.op = "set"
    /\ LRUCache_size(lru) = lru_max_size
    /\ \E i \in DOMAIN lru : now > lru[i].expire_time

\* C2: a set of a new key that finds the cache full removes exactly the
\* least recently used key (recency refreshed by every get that returns the
\* entry and by every set of its key) and leaves max_size entries.
C2_EvictsLeastRecentlyUsed ==
    [][(SetCall /\ ~CacheHas(lru, last_op'.key) /\ Len(lru) = lru_max_size)
          => /\ CacheKeys(lru') = (CacheKeys(lru) \ {Head(recency)}) \cup {last_op'.key}
             /\ Len(lru') = lru_max_size]_vars

\* C2 witness: a set has evicted a key that was inserted after a key that
\* is still stored (the survivor was used again in between).
C2_Witness ==
    /\ last_op.op = "set"
    /\ last_op.evicted # {}
    /\ Len(lru) = lru_max_size
    /\ \E i \in DOMAIN lru : lru[i].key # last_op.key /\ lru[i].expire_time > last_op.at

\* C3: an entry holds the value and the expiry time now + (ttl or
\* default_ttl) of the set that stored it until it is removed; a get of a
\* stored key after that time returns None and removes the entry (the size
\* decreases by one), a get up to that time returns the value.
C3_GetNeverReturnsExpired ==
    [][/\ SetCall =>
            CacheEntry(lru', last_op'.key) =
                [key |-> last_op'.key, value |-> last_op'.value,
                 expire_time |-> now + (IF last_op'.ttl = 0 THEN lru_default_ttl
                                                            ELSE last_op'.ttl)]
       /\ \A k \in CacheKeys(lru) \cap CacheKeys(lru') :
            ~(last_op'.op = "set" /\ last_op'.key = k /\ SetCall)
            => CacheEntry(lru', k) = CacheEntry(lru, k)
       /\ (GetCall /\ CacheHas(lru, last_op'.key)) =>
            IF now > CacheEntry(lru, last_op'.key).expire_time
            THEN /\ result' = None
                 /\ ~CacheHas(lru', last_op'.key)
                 /\ LRUCache_size(lru') = LRUCache_size(lru) - 1
            ELSE /\ result' = CacheEntry(lru, last_op'.key).value
                 /\ CacheHas(lru', last_op'.key)]_vars

\* C3 witness: a get has found its entry expired and removed it while
\* another entry stayed.
C3_Witness ==
    /\ last_op.op = "get"
    /\ last_op.expired
    /\ result = None
    /\ ~CacheHas(lru, last_op.key)
    /\ lru # <<>>

\* C4: a get(key) that immediately follows set(key, v, ttl) returns v,
\* for every key, value and ttl, unless the entry has expired by then
\* (now > time of the set + (ttl or default_ttl)), as it has at once for
\* a negative ttl: then the get returns None.
C4_GetAfterSetReturnsValue ==
    [][(/\ last_op.op = "set"
        /\ GetCall
        /\ last_op'.key = last_op.key)
       => result' = IF now > last_op.at + (IF last_op.ttl = 0 THEN lru_default_ttl
                                                              ELSE last_op.ttl)
                    THEN None
                    ELSE last_op.value]_vars

\* C4 witness: a get that directly followed a set of its key, at the very
\* expiry time of the entry, has returned the value.
C4_Witness ==
    /\ last_op.op = "get"
    /\ last_op.follows_set
    /\ result \in Values
    /\ CacheHas(lru, last_op.key)
    /\ CacheEntry(lru, last_op.key).expire_time = now



(***************************************************************************)
(* SpecSearch: one RecipeSearchService, built from a record set and then   *)
(* driven by update_recipes and the queries.                               *)
(***************************************************************************)
R_ab == [name |-> <<"a", "b">>, category_zh |-> "staple_zh"]
R_Ab == [name |-> <<"A", "b">>, category_zh |-> "soup_zh"]
R_b == [name |-> <<"b">>, category_zh |-> "staple_zh"]
R_abab == [name |-> <<"a", "b", "a", "b">>, category_zh |-> "soup_zh"]

\* The record sets given to the search service: dicts name -> Recipe in
\* insertion order.
R_a == [name |-> <<"a">>, category_zh |-> "staple_zh"]
R_ba == [name |-> <<"b", "a">>, category_zh |-> "soup_zh"]
R_aab == [name |-> <<"a", "a", "b">>, category_zh |-> "soup_zh"]
SearchDataSets ==
    {<<>>, <<R_ab, R_b>>, <<R_ab, R_Ab>>, <<R_Ab, R_ab>>, <<R_b, R_abab, R_ab>>,
     <<R_ba, R_ab, R_a>>, <<R_aab, R_ab>>}

QueryNames == {<<"a", "b">>, <<"A", "b">>, <<"A", "B">>, <<"b">>, <<"a">>, <<" ", "">>}
Keywords == {<<"a">>, <<"b">>, <<"B">>, <<"a", "b", "a", "b">>, <<"\t", "">>, <<>>}
\* max_results arguments: 0 stands for None, -1 is a negative int
MaxResultsArgs == {0, 1, -1}
Counts == {0, 1, 2, 11}
Categories == {"", "staple_zh", "soup_zh", "drink_zh"}

UpdateRecipes(d) ==
    /\ update_recipes(d)
    /\ result' = None
    /\ UNCHANGED <<fetch, now, cacheVars, svcVars>>

FindByName(name) ==
    /\ result' = [kind |-> "find_by_name", value |-> find_by_name(ss_name_index, name)]
    /\ UNCHANGED <<fetch, now, cacheVars, searchVars, svcVars>>

SearchByKeyword(keyword, max_results) ==
    /\ \E r \in search_by_keyword(ss_recipes, ss_keyword_index, keyword, max_results) :
        result' = [kind |-> "search_by_keyword", value |-> r,
                   args |-> <<keyword, max_results>>]
    /\ UNCHANGED <<fetch, now, cacheVars, searchVars, svcVars>>

GetRandomRecipes(count, category_zh) ==
    /\ \E r \in get_random_recipes(ss_random_pool, count, category_zh) :
        result' = [kind |-> "get_random_recipes", value |-> r,
                   args |-> <<count, category_zh>>]
    /\ UNCHANGED <<fetch, now, cacheVars, searchVars, svcVars>>

GetCategoriesInfo ==
    /\ result' = [kind |-> "get_categories_info",
                  value |-> get_categories_info(ss_category_index)]
    /\ UNCHANGED <<fetch, now, cacheVars, searchVars, svcVars>>

GetTotalCount ==
    /\ result' = [kind |-> "get_total_count", value |-> get_total_count(ss_recipes)]
    /\ UNCHANGED <<fetch, now, cacheVars, searchVars, svcVars>>

InitSearch ==
    /\ now = 0
    /\ result = None
    /\ CacheInit
    /\ fetch = NoFetch
    /\ ServiceInit
    /\ \E d \in SearchDataSets : SearchServiceInit(d)

NextSearch ==
    \/ \E d \in SearchDataSets : UpdateRecipes(d)
    \/ \E name \in QueryNames : FindByName(name)
    \/ \E keyword \in Keywords, max_results \in MaxResultsArgs :
          SearchByKeyword(keyword, max_results)
    \/ \E count \in Counts, category_zh \in Categories : GetRandomRecipes(count, category_zh)
    \/ GetCategoriesInfo
    \/ GetTotalCount

SpecSearch == InitSearch /\ [][NextSearch]_vars

(***************************************************************************)
(* Claims about the index, checked under SpecSearch.                       *)
(***************************************************************************)

\* The index answers nothing: no name is found, no keyword matches, no
\* random recipe is drawn and no category is listed.
IndexAnswersNothing(recipes, ix) ==
    /\ \A name \in QueryNames : find_by_name(ix.name_index, name) = None
    /\ \A keyword \in Keywords :
         \A r \in search_by_keyword(recipes, ix.keyword_index, keyword, 0) :
            r.total_count = 0
    /\ \A count \in Counts, category_zh \in Categories :
         get_random_recipes(ix.random_pool, count, category_zh) = {<<>>}
    /\ get_categories_info(ix.category_index) = <<>>

\* C10: after update_recipes with no records the index is empty: find_by_name
\* returns nothing for every name, search_by_keyword has total_count 0,
\* get_random_recipes returns an empty list and get_categories_info is empty.
C10_EmptyBuildYieldsEmptyIndex ==
    [][UpdateRecipes(<<>>) => IndexAnswersNothing(ss_recipes', CurrentIndex')]_vars


\* C11: for every record of the built set, find_by_name(record.name) and
\* find_by_name(record.name.lower()) both return that record, also when the
\* set holds names that differ only in letter case, in every build order.
C11_FindByNameReturnsTheRecord ==
    \A i \in DOMAIN ss_recipes :
        /\ find_by_name(ss_name_index, ss_recipes[i].name) = ss_recipes[i]
        /\ find_by_name(ss_name_index, Lower(ss_recipes[i].name)) = ss_recipes[i]

\* Recipes.search_recipe(keyword) of the legacy plugin: the plain substring
\* scan over all dish names.
search_recipe(recipes, keyword) ==
    {r \in Range(recipes) : Contains(Lower(r.name), Lower(keyword))}

\* C12: search_by_keyword matches exactly the records whose lowercased name
\* contains the lowercased keyword, whatever the keyword's length (longer
\* than 3 characters included): its match count is that of the plain
\* substring scan over all dish names.
C12_MatchesEqualSubstringScan ==
    result.kind = "search_by_keyword"
        => result.value.total_count
             = Cardinality(search_recipe(ss_recipes, result.args[1]))

\* C13: for every keyword and every max_results, the result of
\* search_by_keyword has total_count >= len(recipes) and
\* has_more = (total_count > len(recipes)).
C13_ResultCountsAreConsistent ==
    result.kind = "search_by_keyword"
        => /\ result.value.total_count >= Len(result.value.recipes)
           /\ result.value.has_more
                = (result.value.total_count > Len(result.value.recipes))

\* The relevance classes of a name for a lowercased keyword: 0 the name
\* equals it, 1 the name starts with it, 2 it occurs further inside, 3 it
\* does not occur.
RelevanceClass(name, keyword_lower) ==
    IF Lower(name) = keyword_lower THEN 0
    ELSE IF StartsWith(Lower(name), keyword_lower) THEN 1
    ELSE IF Contains(Lower(name), keyword_lower) THEN 2
    ELSE 3

\* The records search_by_keyword matched and did not return.
NotReturned ==
    {RecipesGet(ss_recipes, n) :
       n \in {m \in matched_names(ss_keyword_index, Lower(result.args[1])) :
                RecipesHas(ss_recipes, m)}}
    \ Range(result.value.recipes)

\* C14: the matches search_by_keyword returns are in non-decreasing order of
\* relevance (an exact-name match before a prefix match before an inner
\* match, inner matches by the position of the first occurrence), and the
\* matches cut off by max_results score no lower than any match returned.
C14_MatchesOrderedByRelevance ==
    result.kind = "search_by_keyword" =>
        LET rs == result.value.recipes
            kw == Lower(result.args[1])
        IN /\ \A i, j \in DOMAIN rs :
                i < j =>
                  /\ RelevanceClass(rs[i].name, kw) <= RelevanceClass(rs[j].name, kw)
                  /\ RelevanceClass(rs[i].name, kw) = 2
                       /\ RelevanceClass(rs[j].name, kw) = 2
                       => IndexOf(Lower(rs[i].name), kw) <= IndexOf(Lower(rs[j].name), kw)
           /\ \A r \in NotReturned, i \in DOMAIN rs :
                /\ RelevanceClass(rs[i].name, kw) <= RelevanceClass(r.name, kw)
                /\ calculate_relevance(rs[i].name, kw) <= calculate_relevance(r.name, kw)

\* An exact match and a prefix match were returned, in that order, and an
\* inner match was cut off.
C14_Witness ==
    /\ result.kind = "search_by_keyword"
    /\ Len(result.value.recipes) = 2
    /\ RelevanceClass(result.value.recipes[1].name, Lower(result.args[1])) = 0
    /\ RelevanceClass(result.value.recipes[2].name, Lower(result.args[1])) = 1
    /\ \E r \in NotReturned : RelevanceClass(r.name, Lower(result.args[1])) = 2

\* The pool a get_random_recipes call for this category label is to draw
\* from: the category's pool when the label has one, the pool of all recipes
\* otherwise, nothing when there is no pool.
SelectedPool(category_zh) ==
    IF category_zh # "" /\ category_zh \in DOMAIN ss_random_pool
    THEN ss_random_pool[category_zh]
    ELSE IF "" \in DOMAIN ss_random_pool THEN ss_random_pool[""]
    ELSE <<>>

\* The count get_random_recipes is to return for a requested count.
ClampedCount(count) ==
    IF count < min_random_count THEN min_random_count
    ELSE IF count > max_random_count THEN max_random_count
    ELSE count

\* C15: get_random_recipes(c) returns exactly min(clamp(c), pool size)
\* records, all of the selected pool and no record twice; when the clamped
\* count is at least the pool size the result is the whole pool.
C15_RandomCountAndNoDuplicates ==
    result.kind = "get_random_recipes" =>
        LET rs == result.value
            pool == SelectedPool(result.args[2])
            n == ClampedCount(result.args[1])
        IN /\ Len(rs) = Min(n, Len(pool))
           /\ Range(rs) \subseteq Range(pool)
           /\ \A i, j \in DOMAIN rs : i # j => rs[i] # rs[j]
           /\ n >= Len(pool) => Range(rs) = Range(pool)

\* Two records were drawn from a pool of three.
C15_Witness ==
    /\ result.kind = "get_random_recipes"
    /\ Len(result.value) = 2
    /\ Len(SelectedPool(result.args[2])) = 3

\* C16: get_random_recipes(count, category) returns only records of the
\* category's pool (records with that label) when the label has a pool, and
\* records of the pool of all recipes when the label is absent, empty or
\* unknown; it returns an empty list only when there is no pool.
C16_DrawsFromTheCategoryPool ==
    result.kind = "get_random_recipes" =>
        LET rs == result.value
            category_zh == result.args[2]
        IN /\ category_zh # "" /\ category_zh \in DOMAIN ss_random_pool
                => \A i \in DOMAIN rs :
                      /\ rs[i].category_zh = category_zh
                      /\ rs[i] \in Range(ss_random_pool[category_zh])
           /\ category_zh = "" \/ category_zh \notin DOMAIN ss_random_pool
                => \A i \in DOMAIN rs : rs[i] \in Range(ss_random_pool[""])
           /\ rs = <<>> => "" \notin DOMAIN ss_random_pool

\* A draw for a category that has a pool, while the pool of all recipes
\* also holds a record of another category.
C16_Witness ==
    /\ result.kind = "get_random_recipes"
    /\ result.args[2] # ""
    /\ result.args[2] \in DOMAIN ss_random_pool
    /\ result.value # <<>>
    /\ \E r \in Range(ss_random_pool[""]) : r.category_zh # result.args[2]

(***************************************************************************)
(* Spec: the RecipeService.  It runs on one asyncio event loop: a          *)
(* coroutine runs without interruption from one await to the next, so each *)
(* action below is the code between two suspension points.  The            *)
(* suspension points are the awaits of the data source in initialize() and *)
(* reload_data() (health_check, fetch_recipes, and __aexit__ on leaving    *)
(* `async with`) and the sleep of _background_cleanup; the queries and     *)
(* cleanup() never await.                                                  *)
(***************************************************************************)
Tasks == {1, 2}        \* coroutines that can run initialize() / reload_data()
Callers == {1}         \* Spec: one such call at a time, queries at its awaits
MaxRequests == 2       \* queries counted in _stats
MaxBgTasks == 2        \* _background_cleanup tasks created
MaxTicks == 2          \* steps of the clock
RandomTTL == 60        \* set_random_recipes(..., ttl=60)
TickStep == RandomTTL  \* the clock advances by the shortest TTL

\* What a load can produce: the dict _convert_to_recipes returns.
DataSets == {<<>>, <<R_ab>>, <<R_b>>}

SvcKeywords == {<<"b">>, <<"B">>}
SvcCategories == {"", "staple_zh", "drink_zh"}   \* "" is category=None
SvcCounts == {1, 11}
SvcDishNames == {<<"a", "b">>}

\* A counter update that counts every request twice.
IncTwice(st, f) == [st EXCEPT ![f] = @ + 2]

\* self._stats[f] += 1
Inc(st, f) == [st EXCEPT ![f] = @ + 1]

\* `if cached_result:` that takes no cached value (every request misses)
TruthyNever(v) == FALSE

\* `if cached_result:` -- the cached values are non-empty strings, so only
\* None is falsy.
Truthy(v) == v # None

\* _ensure_initialized() never raises (mutant).
EnsureInitializedRaisesNever == FALSE

\* _ensure_initialized() raises RuntimeError
EnsureInitializedRaises == ~is_initialized

NotInitializedError == [kind |-> "raise", error |-> "RuntimeError: not initialized"]

\* ResponseFormatter.format_search_result
format_search_result(sr) ==
    IF sr.recipes = <<>>
    THEN [kind |-> "search_no_match", query |-> sr.query]
    ELSE [kind |-> "search_matches", query |-> sr.query, recipes |-> sr.recipes,
          total_count |-> sr.total_count, has_more |-> sr.has_more]

\* ResponseFormatter.format_random_recipes
format_random_recipes(recipes, requested_count) ==
    IF recipes = <<>>
    THEN [kind |-> "random_nothing"]
    ELSE [kind |-> "random_batch", recipes |-> recipes]

\* sorted(categories_info.items(), key=lambda x: x[1], reverse=True): a
\* stable sort, equal counts keep their dict order.
RECURSIVE SortByCountDesc(_)
SortByCountDesc(items) ==
    IF items = <<>> THEN <<>>
    ELSE LET e == items[Len(items)]
             front == SortByCountDesc(SubSeq(items, 1, Len(items) - 1))
             k == Cardinality({i \in DOMAIN front : front[i][2] >= e[2]})
         IN SubSeq(front, 1, k) \o <<e>> \o SubSeq(front, k + 1, Len(front))

\* ResponseFormatter.format_categories_info
format_categories_info(categories_info, total_count) ==
    [kind |-> "categories", lines |-> SortByCountDesc(categories_info),
     total_count |-> total_count]

QueryFails ==
    /\ result' = NotInitializedError
    /\ UNCHANGED <<fetch, now, cacheVars, searchVars, svcVars>>

\* search_recipes(keyword)
search_recipes(keyword) ==
    IF EnsureInitializedRaises THEN QueryFails
    ELSE
    LET g == CacheServiceGet(search_cache, SearchKey(keyword), now, cache_stats,
                             "search_hits", "search_misses")
        st == Inc(Inc(stats, "requests_total"), "search_requests")
    IN
    /\ stats.requests_total < MaxRequests
    /\ cache_stats' = g.stats
    /\ IF Truthy(g.value)
       THEN /\ stats' = Inc(st, "cache_hits")
            /\ search_cache' = g.cache
            /\ result' = g.value
       ELSE /\ stats' = Inc(st, "cache_misses")
            /\ \E sr \in search_by_keyword(ss_recipes, ss_keyword_index, keyword, 0) :
                /\ search_cache' = LRUCache_set(g.cache, SearchKey(keyword),
                                                format_search_result(sr), 0, now,
                                                search_cache_size, cache_ttl)
                /\ result' = format_search_result(sr)
    /\ UNCHANGED <<fetch, now, cacheVars, searchVars, is_initialized, svc_recipes, aliased,
                   has_search, has_cache, random_cache, category_cache, pc, bg_tasks>>

\* The miss path of get_random_recipe(category): the texts it can build.
RandomRecipeTexts(category) ==
    IF category # ""
    THEN {IF recipe # None
          THEN [kind |-> "random_of_category", category |-> category, name |-> recipe.name]
          ELSE [kind |-> "category_empty", category |-> category] :
            recipe \in get_random_recipe_by_category(ss_random_pool, category)}
    ELSE {IF recipes # <<>>
          THEN [kind |-> "random_one", name |-> recipes[1].name,
                category_zh |-> recipes[1].category_zh]
          ELSE [kind |-> "random_nothing"] :
            recipes \in get_random_recipes(ss_random_pool, 1, "")}

\* get_random_recipe(category)
get_random_recipe(category) ==
    IF EnsureInitializedRaises THEN QueryFails
    ELSE
    LET cache_key == IF category # "" THEN category ELSE "all"
        g == CacheServiceGet(random_cache, RandomKey(cache_key, 1), now, cache_stats,
                             "random_hits", "random_misses")
        st == Inc(Inc(stats, "requests_total"), "random_requests")
    IN
    /\ stats.requests_total < MaxRequests
    /\ IF category # "" /\ ~validate_category(ss_category_index, category)
       THEN /\ stats' = st
            /\ result' = [kind |-> "invalid_category", category |-> category,
                          available |-> [i \in DOMAIN get_categories_info(ss_category_index)
                                           |-> get_categories_info(ss_category_index)[i][1]]]
            /\ UNCHANGED <<random_cache, cache_stats>>
       ELSE /\ cache_stats' = g.stats
            /\ IF Truthy(g.value)
               THEN /\ stats' = Inc(st, "cache_hits")
                    /\ random_cache' = g.cache
                    /\ result' = g.value
               ELSE /\ stats' = Inc(st, "cache_misses")
                    /\ \E text \in RandomRecipeTexts(category) :
                        /\ random_cache' = LRUCache_set(g.cache, RandomKey(cache_key, 1),
                                                        text, RandomTTL, now,
                                                        random_pool_size, cache_ttl)
                        /\ result' = text
    /\ UNCHANGED <<fetch, now, cacheVars, searchVars, is_initialized, svc_recipes, aliased,
                   has_search, has_cache, search_cache, category_cache, pc, bg_tasks>>

\* get_recipe_url(dish_name)
get_recipe_url(dish_name) ==
    IF EnsureInitializedRaises THEN QueryFails
    ELSE
    LET recipe == find_by_name(ss_name_index, dish_name) IN
    /\ stats.requests_total < MaxRequests
    /\ stats' = Inc(stats, "requests_total")
    /\ result' = IF recipe # None
                 THEN [kind |-> "recipe_url", name |-> recipe.name]
                 ELSE [kind |-> "recipe_not_found", dish_name |-> dish_name]
    /\ UNCHANGED <<fetch, now, cacheVars, searchVars, is_initialized, svc_recipes, aliased,
                   has_search, has_cache, cachesVars, pc, bg_tasks>>

\* get_categories_info()
svc_get_categories_info ==
    IF EnsureInitializedRaises THEN QueryFails
    ELSE
    LET g == CacheServiceGet(category_cache, CategoryKey("all"), now, cache_stats,
                             "category_hits", "category_misses")
        st == Inc(Inc(stats, "requests_total"), "category_requests")
        text == format_categories_info(get_categories_info(ss_category_index),
                                       get_total_count(ss_recipes))
    IN
    /\ stats.requests_total < MaxRequests
    /\ cache_stats' = g.stats
    /\ IF Truthy(g.value)
       THEN /\ stats' = Inc(st, "cache_hits")
            /\ category_cache' = g.cache
            /\ result' = g.value
       ELSE /\ stats' = Inc(st, "cache_misses")
            /\ category_cache' = LRUCache_set(g.cache, CategoryKey("all"), text, 0, now,
                                              category_cache_size, cache_ttl * 2)
            /\ result' = text
    /\ UNCHANGED <<fetch, now, cacheVars, searchVars, is_initialized, svc_recipes, aliased,
                   has_search, has_cache, search_cache, random_cache, pc, bg_tasks>>

\* get_random_recipes_batch(count)
get_random_recipes_batch(count) ==
    IF EnsureInitializedRaises THEN QueryFails
    ELSE
    LET n == Max(min_random_count, Min(count, max_random_count))
        g == CacheServiceGet(random_cache, RandomKey("all", n), now, cache_stats,
                             "random_hits", "random_misses")
        st == Inc(Inc(stats, "requests_total"), "random_requests")
    IN
    /\ stats.requests_total < MaxRequests
    /\ cache_stats' = g.stats
    /\ IF Truthy(g.value)
       THEN /\ stats' = Inc(st, "cache_hits")
            /\ random_cache' = g.cache
            /\ result' = g.value
       ELSE /\ stats' = Inc(st, "cache_misses")
            /\ \E recipes \in get_random_recipes(ss_random_pool, n, "") :
                /\ random_cache' = LRUCache_set(g.cache, RandomKey("all", n),
                                                format_random_recipes(recipes, n),
                                                RandomTTL, now,
                                                random_pool_size, cache_ttl)
                /\ result' = format_random_recipes(recipes, n)
    /\ UNCHANGED <<fetch, now, cacheVars, searchVars, is_initialized, svc_recipes, aliased,
                   has_search, has_cache, search_cache, category_cache, pc, bg_tasks>>


\* initialize() on a service that is already initialized: warn and return
InitializeAlready(t) ==
    /\ pc[t] = "idle"
    /\ is_initialized
    /\ result' = None
    /\ UNCHANGED <<fetch, now, cacheVars, searchVars, svcVars>>

\* initialize() up to its first await (health_check, then fetch_recipes
\* inside _load_recipe_data)
InitializeBegin(t) ==
    /\ result' = None
    /\ pc[t] = "idle"
    /\ ~is_initialized
    /\ bg_tasks + Cardinality({u \in Tasks : pc[u] \in {"init_fetch", "init_loaded"}})
         < MaxBgTasks
    /\ pc' = [pc EXCEPT ![t] = "init_fetch"]
    /\ UNCHANGED <<fetch, now, cacheVars, searchVars, is_initialized, svc_recipes,
                   aliased, has_search, has_cache, cachesVars, stats, bg_tasks>>

\* reload_data() up to the await of fetch_recipes: the caches are cleared
ReloadBegin(t) ==
    /\ result' = None
    /\ pc[t] = "idle"
    /\ clear_all
    /\ pc' = [pc EXCEPT ![t] = "reload_fetch"]
    /\ before_reload' = [before_reload EXCEPT ![t] =
                            [search |-> search_cache, random |-> random_cache,
                             category |-> category_cache, stats |-> cache_stats]]
    /\ UNCHANGED <<fetch, now, lru, recency, last_op, searchVars, is_initialized, svc_recipes,
                   aliased, has_search, has_cache, stats, bg_tasks>>

\* _load_recipe_data(): fetch_recipes returns, the data is processed and
\* converted, self._recipes is bound to the new dict d; leaving `async
\* with` then awaits the data source's __aexit__.
LoadAssigns(t, d) ==
    /\ result' = None
    /\ pc[t] \in {"init_fetch", "reload_fetch"}
    /\ svc_recipes' = d
    /\ aliased' = FALSE
    /\ pc' = [pc EXCEPT ![t] = IF pc[t] = "init_fetch" THEN "init_loaded"
                                                      ELSE "reload_loaded"]
    /\ UNCHANGED <<fetch, now, cacheVars, searchVars, is_initialized, has_search,
                   has_cache, cachesVars, stats, bg_tasks>>

\* An initialize() that has set _is_initialized before the load, so that a
\* failed load leaves the flag set.
InitializeFailsInitialized(t) ==
    /\ pc[t] \in {"init_fetch", "init_loaded"}
    /\ pc' = [pc EXCEPT ![t] = "idle"]
    /\ result' = [kind |-> "raise", error |-> "DataSourceError"]
    /\ is_initialized' = TRUE
    /\ UNCHANGED <<fetch, now, cacheVars, searchVars, svc_recipes, aliased,
                   has_search, has_cache, cachesVars, stats, bg_tasks>>

\* initialize(): _load_recipe_data raises (in the fetch, the processing or
\* __aexit__); the error is logged and raised again
InitializeFails(t) ==
    /\ pc[t] \in {"init_fetch", "init_loaded"}
    /\ pc' = [pc EXCEPT ![t] = "idle"]
    /\ result' = [kind |-> "raise", error |-> "DataSourceError"]
    /\ UNCHANGED <<fetch, now, cacheVars, searchVars, is_initialized, svc_recipes, aliased,
                   has_search, has_cache, cachesVars, stats, bg_tasks>>

\* initialize() after _load_recipe_data: new search service, new cache
\* service, a new background task, _is_initialized = True
InitializeFinish(t) ==
    /\ pc[t] = "init_loaded"
    /\ SearchServiceNew(svc_recipes)
    /\ aliased' = TRUE
    /\ has_search' = TRUE
    /\ has_cache' = TRUE
    /\ CachesAreNew
    /\ bg_tasks' = bg_tasks + 1
    /\ is_initialized' = TRUE
    /\ pc' = [pc EXCEPT ![t] = "idle"]
    /\ result' = None
    /\ UNCHANGED <<fetch, now, cacheVars, svc_recipes, stats>>

\* reload_data() without self._search_service.update_recipes (mutant of
\* the failure path: it publishes the half-loaded records).
ReloadFailsPublishing(t) ==
    /\ pc[t] \in {"reload_fetch", "reload_loaded"}
    /\ pc' = [pc EXCEPT ![t] = "idle"]
    /\ result' = [kind |-> "reload_failed"]
    /\ before_reload' = [before_reload EXCEPT ![t] = None]
    /\ IF has_search
       THEN update_recipes(svc_recipes) /\ aliased' = TRUE
       ELSE UNCHANGED <<searchVars, aliased>>
    /\ UNCHANGED <<fetch, now, lru, recency, last_op, is_initialized, svc_recipes,
                   has_search, has_cache, cachesVars, stats, bg_tasks>>

\* reload_data(): _load_recipe_data raises; the error is logged and the
\* failure text returned
ReloadFails(t) ==
    /\ pc[t] \in {"reload_fetch", "reload_loaded"}
    /\ pc' = [pc EXCEPT ![t] = "idle"]
    /\ result' = [kind |-> "reload_failed"]
    /\ before_reload' = [before_reload EXCEPT ![t] = None]
    /\ UNCHANGED <<fetch, now, lru, recency, last_op, searchVars, is_initialized, svc_recipes, aliased,
                   has_search, has_cache, cachesVars, stats, bg_tasks>>

\* reload_data() after _load_recipe_data: update_recipes(self._recipes)
ReloadFinish(t) ==
    /\ pc[t] = "reload_loaded"
    /\ IF has_search
       THEN update_recipes(svc_recipes) /\ aliased' = TRUE
       ELSE UNCHANGED <<searchVars, aliased>>
    /\ pc' = [pc EXCEPT ![t] = "idle"]
    /\ result' = [kind |-> "reload_done", count |-> Len(svc_recipes)]
    /\ before_reload' = [before_reload EXCEPT ![t] = None]
    /\ UNCHANGED <<fetch, now, lru, recency, last_op, is_initialized, svc_recipes, has_search,
                   has_cache, cachesVars, stats, bg_tasks>>

\* cleanup(): clear_all, self._recipes.clear() (which empties the search
\* service's dict too when it is the same object), _is_initialized = False.
\* The background task is not cancelled.
cleanup ==
    /\ clear_all
    /\ svc_recipes' = <<>>
    /\ ss_recipes' = IF aliased THEN <<>> ELSE ss_recipes
    /\ is_initialized' = FALSE
    /\ result' = None
    /\ UNCHANGED <<fetch, now, cacheVars, ss_name_index, ss_category_index, ss_keyword_index,
                   ss_random_pool, ss_all_recipes_list, aliased, has_search,
                   has_cache, stats, pc, bg_tasks>>

\* One iteration of a _background_cleanup task after its sleep
BackgroundCleanup ==
    /\ result' = None
    /\ bg_tasks > 0
    /\ IF has_cache THEN cleanup_expired ELSE UNCHANGED cachesVars
    /\ UNCHANGED <<fetch, now, cacheVars, searchVars, is_initialized, svc_recipes,
                   aliased, has_search, has_cache, stats, pc, bg_tasks>>

\* The clock advances.
Advance ==
    /\ result' = None
    /\ now < MaxTicks * TickStep
    /\ now' = now + TickStep
    /\ UNCHANGED <<fetch, cacheVars, searchVars, svcVars>>

Init ==
    /\ now = 0
    /\ result = None
    /\ CacheInit
    /\ fetch = NoFetch
    /\ SearchServiceInit(<<>>)
    /\ ServiceInit

Next ==
    \/ \E t \in Callers : InitializeAlready(t)
    \/ \E t \in Callers : InitializeBegin(t)
    \/ \E t \in Callers, d \in DataSets : LoadAssigns(t, d)
    \/ \E t \in Callers : InitializeFails(t)
    \/ \E t \in Callers : InitializeFinish(t)
    \/ \E t \in Callers : ReloadBegin(t)
    \/ \E t \in Callers : ReloadFails(t)
    \/ \E t \in Callers : ReloadFinish(t)
    \/ cleanup
    \/ BackgroundCleanup
    \/ Advance
    \/ \E keyword \in SvcKeywords : search_recipes(keyword)
    \/ \E category \in SvcCategories : get_random_recipe(category)
    \/ \E dish_name \in SvcDishNames : get_recipe_url(dish_name)
    \/ svc_get_categories_info
    \/ \E count \in SvcCounts : get_random_recipes_batch(count)

Spec == Init /\ [][Next]_vars

(***************************************************************************)
(* Claims about the RecipeService, checked under Spec.                     *)
(***************************************************************************)

\* The index fields that belong to a record set: those a build from
\* nothing leaves, and no index at all for no records.
IndexesOf(recipes) ==
    IF recipes = <<>> THEN {EmptyIndex} ELSE build_indexes(recipes, EmptyIndex)

\* C5: a query never observes a partially rebuilt index: whenever queries
\* are answered, the name index, the category index, the keyword index, the
\* random pools and the record map all come from one and the same record
\* set.
C5_QueriesSeeOneVersion ==
    is_initialized => CurrentIndex \in IndexesOf(ss_recipes)

\* Every index query answers after the step exactly as before it (the
\* answers are functions of the index fields: where no field changed there
\* is nothing to compare).
SameIndexAnswers ==
    \/ searchVars' = searchVars
    \/ /\ \A name \in QueryNames :
            find_by_name(ss_name_index', name) = find_by_name(ss_name_index, name)
       /\ \A keyword \in Keywords, max_results \in {0, 1} :
            search_by_keyword(ss_recipes', ss_keyword_index', keyword, max_results)
              = search_by_keyword(ss_recipes, ss_keyword_index, keyword, max_results)
       /\ \A count \in Counts, category_zh \in Categories :
            get_random_recipes(ss_random_pool', count, category_zh)
              = get_random_recipes(ss_random_pool, count, category_zh)
       /\ get_categories_info(ss_category_index') = get_categories_info(ss_category_index)
       /\ get_total_count(ss_recipes') = get_total_count(ss_recipes)

\* The steps of a reload_data() call that ends in failure: its start, the
\* binding of the loaded records, the failure.
FailingReloadStep(t) ==
    \/ ReloadBegin(t)
    \/ pc[t] = "reload_fetch" /\ \E d \in DataSets : LoadAssigns(t, d)
    \/ ReloadFails(t)

\* C6: a reload_data that fails leaves the published index intact: no step
\* of the failing call changes the answer of find_by_name,
\* search_by_keyword, get_random_recipes, get_categories_info or
\* get_total_count.
C6_FailedReloadKeepsIndex ==
    [][\A t \in Tasks : FailingReloadStep(t) => SameIndexAnswers]_vars

\* C6 witness: a reload has failed after it had bound other records than
\* the published ones, on a service that answers queries from a non-empty
\* index.
C6_Witness ==
    /\ result = [kind |-> "reload_failed"]
    /\ is_initialized
    /\ ss_recipes # <<>>
    /\ svc_recipes # ss_recipes

\* C7: a reload_data that fails leaves the caches intact: every entry the
\* call found in the search, random and category caches (and that has not
\* expired meanwhile) is still stored when the call has failed, and no
\* hit/miss counter is below what the call found.
C7_FailedReloadKeepsCaches ==
    [][\A t \in Tasks :
          (ReloadFails(t) /\ is_initialized) =>
              /\ \A e \in Range(before_reload[t].search) :
                    now <= e.expire_time => e \in Range(search_cache')
              /\ \A e \in Range(before_reload[t].random) :
                    now <= e.expire_time => e \in Range(random_cache')
              /\ \A e \in Range(before_reload[t].category) :
                    now <= e.expire_time => e \in Range(category_cache')
              /\ \A f \in DOMAIN ZeroCacheStats :
                    cache_stats'[f] >= before_reload[t].stats[f]]_vars

\* C8: when reload_data has completed successfully no cache holds an entry
\* computed against the previous index: the three caches are empty when the
\* new records are published.
C8_ReloadLeavesNoOldEntry ==
    [][\A t \in Tasks :
          ReloadFinish(t) =>
              /\ search_cache' = <<>>
              /\ random_cache' = <<>>
              /\ category_cache' = <<>>]_vars

\* A query of the RecipeService.
QueryStep ==
    \/ \E keyword \in SvcKeywords : search_recipes(keyword)
    \/ \E category \in SvcCategories : get_random_recipe(category)
    \/ \E dish_name \in SvcDishNames : get_recipe_url(dish_name)
    \/ svc_get_categories_info
    \/ \E count \in SvcCounts : get_random_recipes_batch(count)

\* C9: a query issued before the first successful initialize, or after
\* cleanup, raises the not-initialized error and leaves the request
\* counters and the caches unchanged; the service is uninitialized from
\* construction and from every cleanup until an initialize completes; a
\* query on an initialized service never gives that error.
C9_QueriesFailFastUninitialized ==
    [][/\ (~is_initialized /\ QueryStep) =>
              /\ result' = NotInitializedError
              /\ stats' = stats
              /\ cachesVars' = cachesVars
       /\ (is_initialized /\ QueryStep) => result' # NotInitializedError
       /\ cleanup => ~is_initialized'
       /\ (~is_initialized /\ is_initialized') => \E t \in Tasks : InitializeFinish(t)]_vars

\* C9 witness: a query has raised the not-initialized error on a service
\* that had been initialized, had served requests and was cleaned up.
C9_Witness ==
    /\ result = NotInitializedError
    /\ has_search
    /\ ~is_initialized
    /\ stats.requests_total > 0

\* The steps in which a request calls get_search_result, get_random_recipes
\* or get_category_info of the CacheService.
SearchGetStep(keyword) == is_initialized /\ search_recipes(keyword)
RandomGetStep(category) ==
    /\ is_initialized
    /\ category = "" \/ validate_category(ss_category_index, category)
    /\ get_random_recipe(category)
BatchGetStep(count) == is_initialized /\ get_random_recipes_batch(count)
CategoryGetStep == is_initialized /\ svc_get_categories_info

\* The call counted once: the hit counter of its cache type if LRUCache.get
\* returns a value, the miss counter otherwise, and no other counter.
CountedOnce(cache, key, hits, misses) ==
    cache_stats' = [cache_stats EXCEPT
                      ![IF LRUCache_get(cache, key, now).value # None
                        THEN hits ELSE misses] = @ + 1]

\* C17: every CacheService get call increments exactly one counter, the hit
\* counter of its cache type when a value is returned and the miss counter
\* otherwise; no other step changes a counter, except that constructing the
\* CacheService and clear_all set all six to zero on empty caches.  So per
\* cache type hits + misses is the number of get calls since then.
C17_EveryGetCountedOnce ==
    [][/\ \A keyword \in SvcKeywords :
            SearchGetStep(keyword)
              => CountedOnce(search_cache, SearchKey(keyword),
                             "search_hits", "search_misses")
       /\ \A category \in SvcCategories :
            RandomGetStep(category)
              => CountedOnce(random_cache,
                             RandomKey(IF category # "" THEN category ELSE "all", 1),
                             "random_hits", "random_misses")
       /\ \A count \in SvcCounts :
            BatchGetStep(count)
              => CountedOnce(random_cache,
                             RandomKey("all", Max(min_random_count,
                                                  Min(count, max_random_count))),
                             "random_hits", "random_misses")
       /\ CategoryGetStep
            => CountedOnce(category_cache, CategoryKey("all"),
                           "category_hits", "category_misses")
       /\ cache_stats' # cache_stats
            => \/ \E keyword \in SvcKeywords : SearchGetStep(keyword)
               \/ \E category \in SvcCategories : RandomGetStep(category)
               \/ \E count \in SvcCounts : BatchGetStep(count)
               \/ CategoryGetStep
               \/ /\ cache_stats' = ZeroCacheStats
                  /\ search_cache' = <<>>
                  /\ random_cache' = <<>>
                  /\ category_cache' = <<>>
      ]_vars

\* A search was answered from the cache after a search that missed, and no
\* counter of another cache type moved.
C17_Witness ==
    /\ cache_stats.search_hits = 1
    /\ cache_stats.search_misses = 1
    /\ cache_stats.random_hits + cache_stats.random_misses = 0
    /\ cache_stats.category_hits + cache_stats.category_misses = 0
    /\ result.kind \in {"search_no_match", "search_matches"}


\* C18: clear_all (called by reload_data and by cleanup) empties the search,
\* random and category caches and sets all six hit/miss counters to zero,
\* whatever the caches and counters held; LRUCache.clear leaves an empty cache.
C18_ClearAllEmptiesAndResets ==
    [][(has_cache /\ ((\E t \in Callers : ReloadBegin(t)) \/ cleanup))
         => /\ search_cache' = LRUCache_clear(search_cache)
            /\ random_cache' = LRUCache_clear(random_cache)
            /\ category_cache' = LRUCache_clear(category_cache)
            /\ LRUCache_size(search_cache') + LRUCache_size(random_cache')
                 + LRUCache_size(category_cache') = 0
            /\ \A c \in DOMAIN cache_stats' : cache_stats'[c] = 0
            /\ DOMAIN cache_stats' = DOMAIN cache_stats
      ]_vars

\* reload_data has just called clear_all on two caches that held an entry
\* and counters that were not zero.
C18_Witness ==
    /\ pc[1] = "reload_fetch"
    /\ before_reload[1] # None
    /\ before_reload[1].search # <<>>
    /\ before_reload[1].random # <<>>
    /\ before_reload[1].stats.search_misses = 1
    /\ before_reload[1].stats.random_misses = 1
    /\ search_cache = <<>>
    /\ random_cache = <<>>
    /\ cache_stats = ZeroCacheStats


\* The cache holds an entry for the key that has not expired now.
HoldsUnexpired(cache, key) ==
    CacheHas(cache, key) /\ ~(now > CacheEntry(cache, key).expire_time)

\* A request of a cached query type.  Hit: the cached value is the response,
\* the cache keeps its entries and cache_hits is incremented.  Miss: the
\* response is a formatted engine result, stored under the key with the ttl,
\* and cache_misses is incremented.
CachedRequest(cache, cache_after, key, ttl, engine_results) ==
    IF HoldsUnexpired(cache, key)
    THEN /\ result' = CacheEntry(cache, key).value
         /\ Range(cache_after) = Range(cache)
         /\ stats'.cache_hits = stats.cache_hits + 1
         /\ stats'.cache_misses = stats.cache_misses
    ELSE /\ result' \in engine_results
         /\ CacheHas(cache_after, key)
         /\ CacheEntry(cache_after, key).value = result'
         /\ CacheEntry(cache_after, key).expire_time = now + ttl
         /\ stats'.cache_misses = stats.cache_misses + 1
         /\ stats'.cache_hits = stats.cache_hits

\* A get_random_recipe request, whether or not its category is known.
RandomRequestStep(category) == is_initialized /\ get_random_recipe(category)

\* The four cached query types, the random-single requests being the steps
\* RandomSingle(category).
CachedRequestsHitOrStore(RandomSingle(_)) ==
    /\ \A keyword \in SvcKeywords :
         SearchGetStep(keyword)
           => CachedRequest(search_cache, search_cache', SearchKey(keyword), cache_ttl,
                            {format_search_result(sr) :
                               sr \in search_by_keyword(ss_recipes, ss_keyword_index,
                                                        keyword, 0)})
    /\ \A category \in SvcCategories :
         RandomSingle(category)
           => CachedRequest(random_cache, random_cache',
                            RandomKey(IF category # "" THEN category ELSE "all", 1),
                            RandomTTL, RandomRecipeTexts(category))
    /\ \A count \in SvcCounts :
         BatchGetStep(count)
           => LET n == ClampedCount(count) IN
              CachedRequest(random_cache, random_cache', RandomKey("all", n), RandomTTL,
                            {format_random_recipes(recipes, n) :
                               recipes \in get_random_recipes(ss_random_pool, n, "")})
    /\ CategoryGetStep
         => CachedRequest(category_cache, category_cache', CategoryKey("all"),
                          cache_ttl * 2,
                          {format_categories_info(get_categories_info(ss_category_index),
                                                  get_total_count(ss_recipes))})

\* C19 (as amended): a search, random-batch or category-listing request, and
\* a random-single request for no category or a category that
\* validate_category accepts, returns the cached value and increments
\* cache_hits when the cache holds an unexpired entry for its key; otherwise
\* it returns the formatted engine result, stores it under the key (random
\* results for 60 seconds, search and category results for the default TTL
\* of their cache) and increments cache_misses.  A random-single request
\* for a category that validate_category rejects returns the
\* invalid-category message, leaves the caches and their counters as they
\* are and changes neither cache_hits nor cache_misses.
C19_ValidRequestsHitOrStore ==
    [][/\ CachedRequestsHitOrStore(RandomGetStep)
       /\ \A category \in SvcCategories :
            (/\ RandomRequestStep(category)
             /\ category # ""
             /\ ~validate_category(ss_category_index, category))
              => /\ result'.kind = "invalid_category"
                 /\ cachesVars' = cachesVars
                 /\ stats'.cache_hits = stats.cache_hits
                 /\ stats'.cache_misses = stats.cache_misses]_vars

\* C19 (as stated): the same of every request of the four query types, a
\* random-single request for any category included.
C19_AllRequestsHitOrStore ==
    [][CachedRequestsHitOrStore(RandomRequestStep)]_vars

\* A random-batch request was answered from the cache after a request that
\* stored its result for 60 seconds.
C19_Witness ==
    /\ result.kind = "random_batch"
    /\ stats.cache_hits = 1
    /\ stats.cache_misses = 1
    /\ stats.random_requests = 2
    /\ \E i \in DOMAIN random_cache :
         /\ random_cache[i].value = result
         /\ random_cache[i].expire_time = RandomTTL


(***************************************************************************)
(* SpecSweep: the background task of _background_cleanup beside the        *)
(* requests that fill the caches.  An iteration of its loop either sweeps  *)
(* the three caches or raises inside the try block; the loop sleeps and    *)
(* iterates again for as long as the event loop runs, which is the         *)
(* fairness of the sweep.                                                   *)
(***************************************************************************)

\* An iteration whose failure ends the task (no try/except in the loop).
BackgroundCleanupRaisesAndStops ==
    /\ bg_tasks > 0
    /\ has_cache
    /\ bg_tasks' = bg_tasks - 1
    /\ last_op' = [op |-> "logger.error", at |-> now]
    /\ result' = None
    /\ UNCHANGED <<fetch, now, lru, recency, before_reload, searchVars, is_initialized,
                   svc_recipes, aliased, has_search, has_cache, cachesVars, stats, pc>>

\* An iteration of _background_cleanup that raises an Exception: it may
\* have swept none, one, two or all of the caches (cleanup_expired sweeps
\* search, random, category in this order); `except Exception` logs the
\* error and the `while True` loop goes on.
BackgroundCleanupRaises ==
    /\ bg_tasks > 0
    /\ has_cache
    /\ \E swept \in 0..3 :
         /\ search_cache' = IF swept >= 1
                            THEN LRUCache_clear_expired(search_cache, now).cache
                            ELSE search_cache
         /\ random_cache' = IF swept >= 2
                            THEN LRUCache_clear_expired(random_cache, now).cache
                            ELSE random_cache
         /\ category_cache' = IF swept >= 3
                              THEN LRUCache_clear_expired(category_cache, now).cache
                              ELSE category_cache
    /\ last_op' = [op |-> "logger.error", at |-> now]
    /\ result' = None
    /\ UNCHANGED <<fetch, now, lru, recency, before_reload, searchVars, is_initialized,
                   svc_recipes, aliased, has_search, has_cache, cache_stats, stats,
                   pc, bg_tasks>>

NextSweep ==
    \/ \E t \in Callers : InitializeBegin(t)
    \/ \E t \in Callers, d \in DataSets : LoadAssigns(t, d)
    \/ \E t \in Callers : InitializeFinish(t)
    \/ \E keyword \in SvcKeywords : search_recipes(keyword)
    \/ \E count \in SvcCounts : get_random_recipes_batch(count)
    \/ svc_get_categories_info
    \/ Advance
    \/ BackgroundCleanup
    \/ BackgroundCleanupRaises

SpecSweep == Init /\ [][NextSweep]_vars /\ WF_vars(BackgroundCleanup)

\* A cache holds an entry that has expired.
ExpiredEntryHeld ==
    \E c \in {search_cache, random_cache, category_cache} :
        \E i \in DOMAIN c : now > c[i].expire_time

\* C20: a failure of one sweep iteration does not end the background loop:
\* the error is logged and a later iteration runs, so whenever a cache
\* holds an expired entry, also after failed iterations, the entry is
\* eventually gone, again and again.
C20_SweepGoesOnAfterFailure ==
    ExpiredEntryHeld ~> ~ExpiredEntryHeld

\* An iteration has failed and was logged, an expired entry is still held
\* and the task is alive.
C20_Witness ==
    /\ last_op.op = "logger.error"
    /\ ExpiredEntryHeld
    /\ bg_tasks > 0


(***************************************************************************)
(* SpecOverlap: initialize(), reload_data() and cleanup() called by the    *)
(* tasks of Tasks, whose calls overlap at their awaits: nothing in         *)
(* RecipeService holds a lock or a flag across the data fetch.             *)
(***************************************************************************)
NextOverlap ==
    \/ \E t \in Tasks : InitializeAlready(t)
    \/ \E t \in Tasks : InitializeBegin(t)
    \/ \E t \in Tasks, d \in DataSets : LoadAssigns(t, d)
    \/ \E t \in Tasks : InitializeFails(t)
    \/ \E t \in Tasks : InitializeFinish(t)
    \/ \E t \in Tasks : ReloadBegin(t)
    \/ \E t \in Tasks : ReloadFails(t)
    \/ \E t \in Tasks : ReloadFinish(t)
    \/ cleanup

SpecOverlap == Init /\ [][NextOverlap]_vars

\* The calls of initialize or reload_data that have begun and not returned.
InFlight == {t \in Tasks : pc[t] # "idle"}

\* C21: at most one fetch-and-rebuild is in flight: while a call of
\* initialize or reload_data is suspended in its data fetch, no second call
\* is fetching or holding a record set to publish.
C21_AtMostOneRebuildInFlight ==
    Cardinality(InFlight) <= 1

\* C24: there is one background sweep task per service: after any
\* interleaving of initialize and cleanup calls at most one
\* _background_cleanup loop is running.
C24_AtMostOneSweepTask ==
    bg_tasks <= 1


(***************************************************************************)
(* Further claims about the LRUCache, checked under SpecCache and, for the *)
(* sweep, under SpecCacheWide.                                             *)
(***************************************************************************)

\* The position of the entry of key k in the cache c (the front is the
\* least recently used entry).
PositionOf(c, k) == CHOOSE i \in DOMAIN c : c[i].key = k

\* C22: clear_expired removes exactly the entries whose expiry time is
\* before now and returns their number; every other entry stays with its
\* value and expiry time, and the survivors keep their relative order of
\* recency, so the next eviction victim among them is the same.
C22_ClearExpiredRemovesExactlyExpired ==
    [][(last_op'.op = "clear_expired" /\ ClearExpired) =>
         /\ \A i \in DOMAIN lru :
              (lru[i] \in Range(lru')) <=> ~(lru[i].expire_time < now)
         /\ Range(lru') \subseteq Range(lru)
         /\ Len(lru') = Cardinality(CacheKeys(lru'))
         /\ result'.value = Len(lru) - Len(lru')
         /\ \A i, j \in DOMAIN lru' :
              i < j => PositionOf(lru, lru'[i].key) < PositionOf(lru, lru'[j].key)
         /\ \A i, j \in DOMAIN recency' :
              i < j => \E a, b \in DOMAIN recency :
                          a < b /\ recency[a] = recency'[i] /\ recency[b] = recency'[j]
      ]_vars

\* A sweep of a cache of three entries has removed the expired one and
\* kept two, k3 before k1 in the cache and in the recency history, of
\* which k1 expires exactly now.
C22_Witness ==
    /\ last_op.op = "clear_expired"
    /\ result.value = 1
    /\ Len(lru) = 2
    /\ lru[1].key = "k3"
    /\ lru[2].key = "k1"
    /\ lru[2].expire_time = now
    /\ recency = <<"k3", "k1">>


\* The entry of key k has expired now.
IsExpired(c, k) == now > CacheEntry(c, k).expire_time

\* Key a was used less recently than key b.
LessRecent(a, b) ==
    \E i, j \in DOMAIN recency : i < j /\ recency[i] = a /\ recency[j] = b

\* C23: when set evicts, the evicted entry is the least recently used one:
\* no non-expired entry other than the least recently used is removed while
\* another entry stays, and among the entries of the same expiry status the
\* evicted one is less recently used than every one that stays.
C23_EvictionFollowsLRUOrder ==
    [][(last_op'.op = "set" /\ SetCall) =>
         \A e \in CacheKeys(lru) \ CacheKeys(lru') :
            \A o \in (CacheKeys(lru) \cap CacheKeys(lru')) \ {last_op'.key} :
               /\ ~IsExpired(lru, e) => e = Head(recency)
               /\ IsExpired(lru, e) = IsExpired(lru, o) => LessRecent(e, o)
               /\ CacheEntry(lru', o) = CacheEntry(lru, o)
      ]_vars

\* A set at this time has evicted an entry and an entry that had expired
\* stayed in the cache.
C23_Witness ==
    /\ last_op.op = "set"
    /\ last_op.at = now
    /\ last_op.evicted # {}
    /\ \E i \in DOMAIN lru : lru[i].key # last_op.key /\ now > lru[i].expire_time


(***************************************************************************)
(* SpecFetch: one call of RemoteRecipeSource.fetch_recipes().  Each attempt *)
(* awaits _fetch_with_client(), which returns the docs or raises; between  *)
(* attempts the call awaits asyncio.sleep(wait_time).                       *)
(***************************************************************************)
MaxRetriesBound == 2
\* config.max_retries and config.retry_delay: RecipeConfig.validate, which
\* rejects negative values, is called nowhere, so a negative value of
\* either reaches fetch_recipes.
RetryCounts == (-1)..MaxRetriesBound
RetryDelays == {-1, 0, 1, 2}
Docs == {<<>>, <<"doc">>}

RECURSIVE Pow2(_)
Pow2(n) == IF n = 0 THEN 1 ELSE 2 * Pow2(n - 1)

\* wait_time = self.config.retry_delay * (2**attempt)
wait_time(delay, attempt) == delay * Pow2(attempt)

\* The time asyncio.sleep(delay) takes: none for a delay <= 0.
SleepTime(delay) == IF delay <= 0 THEN 0 ELSE delay

\* The exception an attempt raises.
ErrorOf(type, attempt) == [type |-> type, attempt |-> attempt]

\* NetworkError("未知网络错误"), made after the loop when last_error is None:
\* the error of no attempt.
UnknownNetworkError == [type |-> "NetworkError", attempt |-> -1]

\* fetch_recipes() is called: last_error = None, nothing attempted yet.
FetchInit ==
    \E m \in RetryCounts, d \in RetryDelays :
        fetch = [status |-> "called", max_retries |-> m, retry_delay |-> d,
                 attempt |-> 0, last_error |-> None,
                 attempts_made |-> 0, errors |-> <<>>, waits |-> <<>>]

\* for attempt in range(max_retries + 1): the loop is entered with attempt
\* 0 and awaits _fetch_with_client(); for an empty range the loop is
\* skipped and `raise last_error or NetworkError(...)` raises the new error.
LoopStarts ==
    /\ fetch.status = "called"
    /\ IF fetch.max_retries + 1 > 0
       THEN /\ fetch' = [fetch EXCEPT !.status = "attempting", !.attempts_made = 1]
            /\ result' = None
       ELSE /\ fetch' = [fetch EXCEPT !.status = "raised"]
            /\ result' = [kind |-> "raise", error |-> UnknownNetworkError]
    /\ UNCHANGED <<now, cacheVars, searchVars, svcVars>>

\* _fetch_with_client() returns the docs: return them
AttemptReturns(docs) ==
    /\ fetch.status = "attempting"
    /\ fetch' = [fetch EXCEPT !.status = "returned"]
    /\ result' = [kind |-> "docs", value |-> docs, attempt |-> fetch.attempt]
    /\ UNCHANGED <<now, cacheVars, searchVars, svcVars>>

\* A failing attempt handled like a NetworkError whatever was raised.
AttemptRaisesRetried(type) ==
    /\ fetch.status = "attempting"
    /\ LET e == ErrorOf(type, fetch.attempt) IN
       IF fetch.attempt < fetch.max_retries
       THEN /\ fetch' = [fetch EXCEPT
                           !.status = "sleeping", !.last_error = e,
                           !.errors = Append(@, e),
                           !.waits = Append(@, wait_time(fetch.retry_delay,
                                                         fetch.attempt))]
            /\ result' = None
       ELSE /\ fetch' = [fetch EXCEPT !.status = "raised", !.last_error = e,
                                      !.errors = Append(@, e)]
            /\ result' = [kind |-> "raise", error |-> e]
    /\ UNCHANGED <<now, cacheVars, searchVars, svcVars>>

\* _fetch_with_client() raises a NetworkError: last_error = e; before the
\* last attempt the call awaits asyncio.sleep(wait_time), after the last
\* attempt the loop ends and last_error is raised.
AttemptRaisesNetworkError ==
    /\ fetch.status = "attempting"
    /\ LET e == ErrorOf("NetworkError", fetch.attempt) IN
       IF fetch.attempt < fetch.max_retries
       THEN /\ fetch' = [fetch EXCEPT
                           !.status = "sleeping", !.last_error = e,
                           !.errors = Append(@, e),
                           !.waits = Append(@, wait_time(fetch.retry_delay,
                                                         fetch.attempt))]
            /\ result' = None
       ELSE /\ fetch' = [fetch EXCEPT !.status = "raised", !.last_error = e,
                                      !.errors = Append(@, e)]
            /\ result' = [kind |-> "raise", error |-> e]
    /\ UNCHANGED <<now, cacheVars, searchVars, svcVars>>

\* asyncio.sleep(wait_time) returns, at once for a wait_time <= 0: the
\* next iteration of the loop awaits _fetch_with_client() again
SleepReturns ==
    /\ fetch.status = "sleeping"
    /\ now' = now + SleepTime(fetch.waits[Len(fetch.waits)])
    /\ fetch' = [fetch EXCEPT !.status = "attempting", !.attempt = @ + 1,
                              !.attempts_made = @ + 1]
    /\ result' = None
    /\ UNCHANGED <<cacheVars, searchVars, svcVars>>

\* _fetch_with_client() raises a DataParseError or a DataValidationError:
\* it is logged and raised again (raise e)
AttemptRaisesDataError(type) ==
    /\ fetch.status = "attempting"
    /\ LET e == ErrorOf(type, fetch.attempt) IN
       /\ fetch' = [fetch EXCEPT !.status = "raised", !.errors = Append(@, e)]
       /\ result' = [kind |-> "raise", error |-> e]
    /\ UNCHANGED <<now, cacheVars, searchVars, svcVars>>

\* _fetch_with_client() raises an exception that fetch_recipes has no
\* except clause for: it propagates
AttemptRaisesOther ==
    /\ fetch.status = "attempting"
    /\ LET e == ErrorOf("Exception", fetch.attempt) IN
       /\ fetch' = [fetch EXCEPT !.status = "raised", !.errors = Append(@, e)]
       /\ result' = [kind |-> "raise", error |-> e]
    /\ UNCHANGED <<now, cacheVars, searchVars, svcVars>>

InitFetch ==
    /\ now = 0
    /\ result = None
    /\ CacheInit
    /\ SearchServiceInit(<<>>)
    /\ ServiceInit
    /\ FetchInit

NextFetch ==
    \/ LoopStarts
    \/ \E docs \in Docs : AttemptReturns(docs)
    \/ AttemptRaisesNetworkError
    \/ SleepReturns
    \/ \E type \in {"DataParseError", "DataValidationError"} : AttemptRaisesDataError(type)
    \/ AttemptRaisesOther

SpecFetch == InitFetch /\ [][NextFetch]_vars


\* The call has ended by raising after attempts that all raised a
\* NetworkError (none, when no attempt was made).
AllAttemptsFailed ==
    /\ fetch.status = "raised"
    /\ \A i \in DOMAIN fetch.errors : fetch.errors[i].type = "NetworkError"

\* C25: fetch_recipes makes at most max_retries + 1 attempts; every attempt
\* before the current one raised a NetworkError and was followed by
\* asyncio.sleep(retry_delay * 2^attempt); the call returns the docs of the
\* first attempt that succeeds; and when it raises after NetworkErrors only,
\* max_retries + 1 attempts were made and the error raised is the
\* NetworkError of the last of them.
C25_FetchRetriesAreBounded ==
    /\ fetch.attempts_made <= fetch.max_retries + 1
    /\ fetch.status # "called" => fetch.attempts_made = fetch.attempt + 1
    /\ \A i \in 1..(fetch.attempts_made - 1) :
         /\ fetch.errors[i] = [type |-> "NetworkError", attempt |-> i - 1]
         /\ fetch.waits[i] = fetch.retry_delay * (2 ^ (i - 1))
    /\ Len(fetch.waits) = (IF fetch.status = "sleeping" THEN fetch.attempts_made
                           ELSE IF fetch.attempts_made = 0 THEN 0
                           ELSE fetch.attempts_made - 1)
    /\ fetch.status = "returned"
         => /\ result.kind = "docs"
            /\ result.attempt = fetch.attempts_made - 1
            /\ Len(fetch.errors) = fetch.attempts_made - 1
    /\ AllAttemptsFailed
         => /\ Len(fetch.errors) = fetch.max_retries + 1
            /\ Len(fetch.errors) >= 1
            /\ result = [kind |-> "raise", error |-> fetch.errors[Len(fetch.errors)]]

\* C26: a DataParseError or DataValidationError of an attempt is raised by
\* fetch_recipes at once and unchanged: no attempt and no backoff wait
\* follows it, whatever the number of retries left.
C26_DataErrorsAreNotRetried ==
    \A i \in DOMAIN fetch.errors :
        fetch.errors[i].type \in {"DataParseError", "DataValidationError"}
          => /\ i = Len(fetch.errors)
             /\ fetch.status = "raised"
             /\ result = [kind |-> "raise", error |-> fetch.errors[i]]
             /\ fetch.attempts_made = i
             /\ Len(fetch.waits) = i - 1

\* The second attempt of a call with retries left raised a
\* DataValidationError and the call raised it.
C26_Witness ==
    /\ fetch.status = "raised"
    /\ fetch.max_retries = 2
    /\ fetch.attempts_made = 2
    /\ result.error = [type |-> "DataValidationError", attempt |-> 1]


(***************************************************************************)
(* Further claims about the index, checked under SpecSearch.               *)
(***************************************************************************)

\* C27: every record search_by_keyword returns has a lowercased name that
\* contains the lowercased keyword, so none of them has the fallback
\* relevance 1000; for an empty or blank keyword the result is empty, with
\* total_count 0 and has_more false.
C27_ReturnedMatchesContainKeyword ==
    result.kind = "search_by_keyword" =>
        /\ \A i \in DOMAIN result.value.recipes :
             /\ Contains(Lower(result.value.recipes[i].name), Lower(result.args[1]))
             /\ calculate_relevance(result.value.recipes[i].name,
                                    Lower(result.args[1])) < 1000
        /\ (result.args[1] = <<>> \/ \A i \in DOMAIN result.args[1] : result.args[1][i] \in Whitespace)
             => /\ result.value.recipes = <<>>
                /\ result.value.total_count = 0
                /\ result.value.has_more = FALSE

\* A search for B has returned the record b and a record with b inside
\* its name.
C27_Witness ==
    /\ result.kind = "search_by_keyword"
    /\ result.args[1] = <<"B">>
    /\ Len(result.value.recipes) = 2
    /\ result.value.recipes[1].name = <<"b">>
    /\ Len(result.value.recipes[2].name) > 1


(***************************************************************************)
(* Further claims about the RecipeService, checked under Spec.             *)
(***************************************************************************)

\* C28: a value cached by one query type is never the response to a request
\* of another type: get_random_recipes_batch never returns the text of a
\* single recommendation and get_random_recipe the text of a batch, and a
\* search or category request never returns a random text.
C28_NoCrossTypeCacheRead ==
    [][/\ \A count \in SvcCounts :
            BatchGetStep(count) => result'.kind \in {"random_batch", "random_nothing"}
       /\ \A category \in SvcCategories :
            RandomGetStep(category)
              => result'.kind \in {"random_one", "random_of_category",
                                   "category_empty", "random_nothing"}
       /\ \A keyword \in SvcKeywords :
            SearchGetStep(keyword)
              => result'.kind \in {"search_no_match", "search_matches"}
       /\ CategoryGetStep
            => result'.kind \notin {"random_batch", "random_nothing", "random_one",
                                    "random_of_category", "category_empty",
                                    "search_no_match", "search_matches"}
      ]_vars

\* The relations between the request counters of the RecipeService.
StatsConsistent(st) ==
    /\ st.cache_hits + st.cache_misses <= st.requests_total
    /\ st.search_requests + st.random_requests + st.category_requests
           <= st.requests_total

\* C29: the request counters always satisfy cache_hits + cache_misses <=
\* requests_total and search_requests + random_requests +
\* category_requests <= requests_total; no step (request, reload_data,
\* cleanup, initialize, passing of time) decreases a counter; every request
\* the service accepts increments requests_total by exactly one, and every
\* other step, a request rejected as not initialized included, leaves all
\* the counters as they were.
C29_RequestCountersAreConsistent ==
    [][/\ StatsConsistent(stats) /\ StatsConsistent(stats')
       /\ \A f \in DOMAIN stats : stats'[f] >= stats[f]
       /\ (is_initialized /\ QueryStep) =>
              stats'.requests_total = stats.requests_total + 1
       /\ ~(is_initialized /\ QueryStep) => stats' = stats]_vars

\* C29 witness: two requests were counted, one of them a random request,
\* neither of them reached the cache (an unknown category and a URL
\* lookup), and the counters have survived a cleanup.
C29_Witness ==
    /\ stats.requests_total = 2
    /\ stats.random_requests = 1
    /\ stats.cache_hits + stats.cache_misses = 0
    /\ has_search
    /\ ~is_initialized

\* What initialize() builds after the load: the search service, the cache
\* service and the sweep tasks.
builtVars == <<searchVars, has_search, has_cache, cachesVars, bg_tasks>>

\* C30: an initialize() whose data load raises gives the error to its
\* caller, leaves the service uninitialized and starts no sweep task and
\* builds no search or cache service; an uninitialized service answers
\* every query with the not-initialized error and becomes initialized only
\* when an initialize() completes; initialize() on an initialized service
\* returns at once: it starts no load and leaves the search service, the
\* cache service and the sweep tasks as they are.
C30_FailedInitializeLeavesUninitialized ==
    [][\A t \in Tasks :
        /\ InitializeFails(t) =>
               /\ result' = [kind |-> "raise", error |-> "DataSourceError"]
               /\ ~is_initialized'
               /\ builtVars' = builtVars
        /\ (~is_initialized /\ QueryStep) => result' = NotInitializedError
        /\ (~is_initialized /\ is_initialized') => \E u \in Tasks : InitializeFinish(u)
        /\ InitializeBegin(t) => ~is_initialized
        /\ (is_initialized /\ InitializeAlready(t)) =>
               /\ result' = None
               /\ pc' = pc
               /\ svc_recipes' = svc_recipes
               /\ builtVars' = builtVars]_vars

\* C30 witness: on a service that has never been initialized an
\* initialize() has failed after its load had started: the caller has the
\* error, no call is in flight, the service is uninitialized and has
\* neither services nor a sweep task.
C30_Witness ==
    /\ result = [kind |-> "raise", error |-> "DataSourceError"]
    /\ \A t \in Tasks : pc[t] = "idle"
    /\ ~is_initialized
    /\ ~has_search
    /\ ~has_cache
    /\ bg_tasks = 0

====
